---- MODULE Spec2Model ----
(***************************************************************************)
(* A model of codespell's scanning and correction engine                   *)
(* (codespell_lib/_codespell.py): the dictionary builder, the word and     *)
(* URI extractors, the correction resolver and the per-file line scanner.  *)
(*                                                                         *)
(* Text is modelled as a sequence of one-character strings, so that the    *)
(* regular expressions and the str methods of the source are computed      *)
(* character by character.                                                 *)
(***************************************************************************)
EXTENDS Integers, Sequences, FiniteSets, TLC

(***************************************************************************)
(* Characters and the str methods the source uses.                         *)
(***************************************************************************)
LowerChars ==
    <<"a","b","c","d","e","f","g","h","i","j","k","l","m",
      "n","o","p","q","r","s","t","u","v","w","x","y","z">>

UpperChars ==
    <<"A","B","C","D","E","F","G","H","I","J","K","L","M",
      "N","O","P","Q","R","S","T","U","V","W","X","Y","Z">>

DigitChars == {"0","1","2","3","4","5","6","7","8","9"}

Range(s) == {s[k] : k \in 1..Len(s)}

IsLowerCh(c) == c \in Range(LowerChars)

IsUpperCh(c) == c \in Range(UpperChars)

LetterIndex(c, alphabet) == CHOOSE k \in 1..Len(alphabet) : alphabet[k] = c

ToLowerCh(c) == IF IsUpperCh(c) THEN LowerChars[LetterIndex(c, UpperChars)] ELSE c

ToUpperCh(c) == IF IsLowerCh(c) THEN UpperChars[LetterIndex(c, LowerChars)] ELSE c

\* str.lower()
lower(s) == [k \in 1..Len(s) |-> ToLowerCh(s[k])]

\* str.upper()
upper(s) == [k \in 1..Len(s) |-> ToUpperCh(s[k])]

\* str.capitalize(): first character upper-cased, the rest lower-cased
capitalize(s) ==
    [k \in 1..Len(s) |-> IF k = 1 THEN ToUpperCh(s[k]) ELSE ToLowerCh(s[k])]

\* the characters \s matches
SpaceChars == {" ", "\n", "\t", "\r"}

RECURSIVE lstrip(_)
lstrip(s) ==
    IF s # <<>> /\ s[1] \in SpaceChars THEN lstrip(Tail(s)) ELSE s

RECURSIVE rstrip(_)
rstrip(s) ==
    IF s # <<>> /\ s[Len(s)] \in SpaceChars
    THEN rstrip(SubSeq(s, 1, Len(s) - 1))
    ELSE s

\* str.strip()
strip(s) == rstrip(lstrip(s))

\* whether s reads sub from (1-based) position p
StartsAt(s, p, sub) ==
    /\ p + Len(sub) - 1 <= Len(s)
    /\ \A k \in 1..Len(sub) : s[p + k - 1] = sub[k]

\* str.split(sep) from position p, sep non-empty: the pieces between the
\* non-overlapping occurrences of sep, scanning from the left
RECURSIVE SplitFrom(_, _, _, _)
SplitFrom(s, sep, p, acc) ==
    IF p > Len(s) THEN <<acc>>
    ELSE IF StartsAt(s, p, sep)
         THEN <<acc>> \o SplitFrom(s, sep, p + Len(sep), <<>>)
         ELSE SplitFrom(s, sep, p + 1, Append(acc, s[p]))

split(s, sep) == SplitFrom(s, sep, 1, <<>>)

\* str.rfind(","): the 0-based index of the last comma, or -1
rfind_comma(s) ==
    IF \E k \in 1..Len(s) : s[k] = ","
    THEN (CHOOSE k \in 1..Len(s) :
              s[k] = "," /\ \A j \in (k + 1)..Len(s) : s[j] # ",") - 1
    ELSE -1

\* sep.join(parts)
RECURSIVE join(_, _)
join(sep, parts) ==
    IF parts = <<>> THEN <<>>
    ELSE IF Len(parts) = 1 THEN parts[1]
    ELSE parts[1] \o sep \o join(sep, Tail(parts))

(***************************************************************************)
(* The regular expressions: the word pattern, the URI/email pattern and    *)
(* the whole-word substitution of a fix.                                   *)
(***************************************************************************)
\* the characters \w matches
WChars == Range(LowerChars) \cup Range(UpperChars) \cup DigitChars \cup {"_"}

\* word_regex_def = "[\\w\\-'\u2019\x60]+" : the characters of the class;
\* "rsquo" stands for the one character U+2019 and "bquote" for the backtick
word_regex_def == WChars \cup {"-", "'", "rsquo", "bquote"}

\* the first (1-based) position >= p whose character is not in class
RECURSIVE RunEnd(_, _, _)
RunEnd(s, p, class) ==
    IF p > Len(s) \/ s[p] \notin class THEN p ELSE RunEnd(s, p + 1, class)

\* \b before (1-based) position p: exactly one of the two neighbours is \w
WordBoundary(s, p) ==
    LET before == p - 1 >= 1 /\ p - 1 <= Len(s) /\ s[p - 1] \in WChars
        after == p >= 1 /\ p <= Len(s) /\ s[p] \in WChars
    IN  before # after

\* word_regex.finditer(text) from position p: the maximal runs of word
\* characters, as matches with span (0-based start, end) and group
RECURSIVE FindWords(_, _)
FindWords(s, p) ==
    IF p > Len(s) THEN <<>>
    ELSE IF s[p] \in word_regex_def
         THEN LET e == RunEnd(s, p, word_regex_def)
              IN  <<[start |-> p - 1, end |-> e - 1, group |-> SubSeq(s, p, e - 1)]>>
                      \o FindWords(s, e)
         ELSE FindWords(s, p + 1)

\* _ignore_word_sub with ignore_word_regex = None (the default)
ignore_word_sub(text) == text

extract_words_iter(text) == FindWords(ignore_word_sub(text), 1)

extract_words(text) ==
    LET ms == extract_words_iter(text) IN [k \in 1..Len(ms) |-> ms[k].group]

\* the schemes of uri_regex_def: https?|[ts]?ftp|file|git|smb
UriSchemes ==
    { <<"h","t","t","p">>, <<"h","t","t","p","s">>, <<"f","t","p">>,
      <<"t","f","t","p">>, <<"s","f","t","p">>, <<"f","i","l","e">>,
      <<"g","i","t">>, <<"s","m","b">> }

AllChars == WChars \cup SpaceChars \cup
            {"-", "'", "rsquo", "bquote", "@", ".", ":", "/", ",", ">", "%", "+", "*"}

\* \b(?:https?|[ts]?ftp|file|git|smb)://[^\s]+(?=$|\s) at position p:
\* the (1-based, exclusive) end of the match, or 0
SchemeUriEnd(s, p) ==
    IF /\ WordBoundary(s, p)
       /\ \E sc \in UriSchemes : StartsAt(s, p, sc \o <<":", "/", "/">>)
    THEN LET sc == CHOOSE x \in UriSchemes : StartsAt(s, p, x \o <<":", "/", "/">>)
             body == p + Len(sc) + 3
             e == RunEnd(s, body, AllChars \ SpaceChars)
         IN  IF e > body THEN e ELSE 0
    ELSE 0

EmailLocalChars == WChars \cup {".", "%", "+", "-"}

EmailDomainChars == WChars \cup {".", "-"}

\* \b[\w.%+-]+@[\w.-]+\b at position p: the end of the match, or 0.  The
\* local part is the whole run up to an "@"; the greedy domain backs off to
\* the last position at which \b holds.
EmailEnd(s, p) ==
    IF WordBoundary(s, p) /\ p <= Len(s) /\ s[p] \in EmailLocalChars
    THEN LET at == RunEnd(s, p, EmailLocalChars)
             top == RunEnd(s, at + 1, EmailDomainChars)
             ends == {e \in (at + 2)..top : WordBoundary(s, e)}
         IN  IF at <= Len(s) /\ s[at] = "@" /\ ends # {}
             THEN CHOOSE e \in ends : \A x \in ends : x <= e
             ELSE 0
    ELSE 0

\* uri_regex_def: the first alternative that matches at p wins
UriEnd(s, p) ==
    IF SchemeUriEnd(s, p) > 0 THEN SchemeUriEnd(s, p) ELSE EmailEnd(s, p)

\* the spans (1-based start, exclusive end) of the non-overlapping matches
\* of uri_regex in s, scanning from position p
RECURSIVE UriSpans(_, _)
UriSpans(s, p) ==
    IF p > Len(s) THEN <<>>
    ELSE LET e == UriEnd(s, p)
         IN  IF e > 0 THEN <<[start |-> p, end |-> e]>> \o UriSpans(s, e)
             ELSE UriSpans(s, p + 1)

\* re.findall(uri_regex, line)
uri_findall(s) ==
    LET sp == UriSpans(s, 1)
    IN  [k \in 1..Len(sp) |-> SubSeq(s, sp[k].start, sp[k].end - 1)]

\* uri_regex.sub(" ", line)
RECURSIVE UriSubFrom(_, _)
UriSubFrom(s, p) ==
    IF p > Len(s) THEN <<>>
    ELSE LET e == UriEnd(s, p)
         IN  IF e > 0 THEN <<" ">> \o UriSubFrom(s, e)
             ELSE <<s[p]>> \o UriSubFrom(s, p + 1)

uri_sub(s) == UriSubFrom(s, 1)

\* re.sub(r"\b%s\b" % word, fixword, s) from position p: every
\* non-overlapping occurrence of word that has \b on both sides
RECURSIVE WordSubFrom(_, _, _, _)
WordSubFrom(word, fixword, s, p) ==
    IF p > Len(s) THEN <<>>
    ELSE IF /\ StartsAt(s, p, word)
            /\ WordBoundary(s, p)
            /\ WordBoundary(s, p + Len(word))
         THEN fixword \o WordSubFrom(word, fixword, s, p + Len(word))
         ELSE <<s[p]>> \o WordSubFrom(word, fixword, s, p + 1)

word_sub(word, fixword, s) == WordSubFrom(word, fixword, s, 1)

(***************************************************************************)
(* The dictionary builder.                                                 *)
(***************************************************************************)
ARROW == <<"-", ">">>

COMMA == <<",">>

\* Misspelling(data, fix, reason)
Misspelling(data, fix, reason) == [data |-> data, fix |-> fix, reason |-> reason]

\* str.find(","): the 0-based index of the first comma, or -1
find_comma(s) ==
    IF \E k \in 1..Len(s) : s[k] = ","
    THEN (CHOOSE k \in 1..Len(s) :
              s[k] = "," /\ \A j \in 1..(k - 1) : s[j] # ",") - 1
    ELSE -1

\* a builder that classifies by the first comma of the data instead of the
\* last; C9's property tells it from ParseData
ParseData_FirstComma(rawdata) ==
    LET data == strip(rawdata)
        fix == find_comma(data)
    IN  IF fix < 0 THEN [data |-> data, fix |-> TRUE, reason |-> <<>>]
        ELSE IF fix = Len(data) - 1
             THEN [data |-> SubSeq(data, 1, fix), fix |-> FALSE, reason |-> <<>>]
             ELSE [data |-> SubSeq(data, 1, fix), fix |-> FALSE,
                   reason |-> strip(SubSeq(data, fix + 2, Len(data)))]

\* build_dict, lines 641-656: the entry made from the lower-cased data of a
\* dictionary line, classified by its last comma
ParseData(rawdata) ==
    LET data == strip(rawdata)
        fix == rfind_comma(data)
    IN  IF fix < 0 THEN Misspelling(data, TRUE, <<>>)
        ELSE IF fix = Len(data) - 1
             THEN Misspelling(SubSeq(data, 1, fix), FALSE, <<>>)
             ELSE Misspelling(SubSeq(data, 1, fix), FALSE,
                              strip(SubSeq(data, fix + 2, Len(data))))

\* an unpacking that takes the first two parts of a split of more than two;
\* C13's property tells it from LineUnpacks
LineUnpacks_TwoOrMore(dline) == Len(split(dline, ARROW)) >= 2

\* [key, data] = line.split("->") raises ValueError unless the split gives
\* exactly two parts
LineUnpacks(dline) == Len(split(dline, ARROW)) = 2

\* the mapping m with m[key] set to entry
SetEntry(m, key, entry) ==
    [k \in DOMAIN m \cup {key} |-> IF k = key THEN entry ELSE m[k]]

\* build_dict: the lines of the dictionary files in order, into misspellings
RECURSIVE build_dict(_, _, _)
build_dict(dlines, m, ignore) ==
    IF dlines = <<>> THEN m
    ELSE LET parts == split(Head(dlines), ARROW)
             key == lower(parts[1])
             data == lower(parts[2])
         IN  IF key \in ignore
             THEN build_dict(Tail(dlines), m, ignore)
             ELSE build_dict(Tail(dlines), SetEntry(m, key, ParseData(data)), ignore)

\* an exclude set that holds the lines without their surrounding white
\* space; C5's property tells it from build_exclude_hashes
build_exclude_hashes_Stripped(xlines) == {strip(xlines[k]) : k \in 1..Len(xlines)}

\* build_exclude_hashes: every line of the exclude file, verbatim
build_exclude_hashes(xlines) == Range(xlines)

(***************************************************************************)
(* The correction resolver.                                                *)
(***************************************************************************)
\* [w.strip() for w in data.split(",")]
Candidates(data) ==
    LET ws == split(data, COMMA) IN [k \in 1..Len(ws) |-> strip(ws[k])]

fix_case(word, fixword) ==
    IF word = capitalize(word)
    THEN LET ws == split(fixword, COMMA)
         IN  join(<<",", " ">>, [k \in 1..Len(ws) |-> capitalize(strip(ws[k]))])
    ELSE IF word = upper(word) THEN upper(fixword)
    ELSE fixword

\* interactivity & bit, for the bits 1 and 2
HasBit(n, bit) == (n \div bit) % 2 = 1

\* a resolver that offers the candidates whatever the reason of the entry is;
\* C4's property tells it from PromptKind
PromptKind_AnyReason(misspelling, interactivity) ==
    IF interactivity <= 0 THEN "none"
    ELSE IF misspelling.fix /\ HasBit(interactivity, 1) THEN "confirm"
    ELSE IF HasBit(interactivity, 2) THEN "choose"
    ELSE "none"

\* which prompt ask_for_word_fix shows for an entry: "none", "confirm" (Y/n)
\* or "choose" (the enumerated candidates)
PromptKind(misspelling, interactivity) ==
    IF interactivity <= 0 THEN "none"
    ELSE IF misspelling.fix /\ HasBit(interactivity, 1) THEN "confirm"
    ELSE IF HasBit(interactivity, 2) /\ misspelling.reason = <<>> THEN "choose"
    ELSE "none"

\* opt[i] with Python's indexing: a negative index counts from the end
PyIndex(opt, n) == IF n >= 0 THEN opt[n + 1] ELSE opt[Len(opt) + n + 1]

\* the inputs that end the prompt, as records [r, n]: "Y" or "N" (a blank
\* line reads as "Y") for confirm; a blank line, or the index n of a
\* non-empty candidate, for choose (anything else prompts again)
Reply(r, n) == [r |-> r, n |-> n]

Answers(misspelling, interactivity) ==
    LET kind == PromptKind(misspelling, interactivity)
        opt == Candidates(misspelling.data)
    IN  IF kind = "confirm" THEN {Reply("Y", 0), Reply("N", 0)}
        ELSE IF kind = "choose"
             THEN {Reply("blank", 0)} \cup
                  {Reply("index", n) : n \in
                      {x \in (0 - Len(opt))..(Len(opt) - 1) : PyIndex(opt, x) # <<>>}}
             ELSE {Reply("none", 0)}

\* ask_for_word_fix: the entry after the user's answer
ask_for_word_fix(misspelling, interactivity, answer) ==
    LET kind == PromptKind(misspelling, interactivity)
    IN  IF kind = "confirm"
        THEN IF answer.r = "N" THEN [misspelling EXCEPT !.fix = FALSE] ELSE misspelling
        ELSE IF kind = "choose" /\ answer.r = "index"
             THEN [misspelling EXCEPT !.fix = TRUE,
                      !.data = PyIndex(Candidates(misspelling.data), answer.n)]
             ELSE misspelling

\* a removal of every match whose group is uri_word; C6's property tells it
\* from RemoveFirst
RemoveFirst_Every(matches, uri_word) ==
    SelectSeq(matches, LAMBDA m : m.group # uri_word)

\* apply_uri_ignore_words, lines 795-798: the matches without the first one
\* whose group is uri_word
RECURSIVE RemoveFirst(_, _)
RemoveFirst(matches, uri_word) ==
    IF matches = <<>> THEN <<>>
    ELSE IF Head(matches).group = uri_word THEN Tail(matches)
    ELSE <<Head(matches)>> \o RemoveFirst(Tail(matches), uri_word)

\* the loop over the words of the URIs, in order
RECURSIVE RemoveEach(_, _, _)
RemoveEach(matches, uri_words, ignore) ==
    IF uri_words = <<>> THEN matches
    ELSE RemoveEach(IF Head(uri_words) \in ignore
                    THEN RemoveFirst(matches, Head(uri_words))
                    ELSE matches,
                    Tail(uri_words), ignore)

\* the wildcard of uri_ignore_words
STAR == <<"*">>

RECURSIVE Flatten(_)
Flatten(ss) == IF ss = <<>> THEN <<>> ELSE Head(ss) \o Flatten(Tail(ss))

apply_uri_ignore_words(matches, text, ignore) ==
    IF ignore = {} THEN matches
    ELSE LET uris == uri_findall(text)
             uri_words == Flatten([k \in 1..Len(uris) |-> extract_words(uris[k])])
         IN  RemoveEach(matches, uri_words, ignore)

\* a scan that never erases the URIs of the line; C7's property tells it from
\* line_matches
line_matches_KeepUris(text, ignore) ==
    apply_uri_ignore_words(extract_words_iter(text), text, ignore)

\* parse_file, lines 886-897: the matches of a line that are checked
line_matches(text, ignore) ==
    IF STAR \in ignore
    THEN extract_words_iter(uri_sub(text))
    ELSE apply_uri_ignore_words(extract_words_iter(text), text, ignore)

(***************************************************************************)
(* The run: main, parse_file and the loop over the matches of a line.      *)
(***************************************************************************)
VARIABLES
    options,          \* write_changes, interactive, quiet_level, check_filenames, context
    config_error,     \* which usage error, if any, the command line holds
    dictionary,       \* the lines of the dictionary files, in load order
    ignore_words,     \* the ignore-word set
    uri_ignore_words, \* the words ignored inside URIs and emails
    exclude_file,     \* the lines of the exclude file
    files,            \* the files main hands to parse_file: name, kind, lines
    disk,             \* the content on disk of each file
    misspellings,     \* key -> Misspelling
    exclude_lines,    \* the exclude set
    pc,               \* where main stands
    fidx,             \* the index of the file parse_file is at
    lines,            \* parse_file's line buffer
    i,                \* the number of the line being scanned
    check_matches,    \* the matches of that line still to look at
    fixed_words,      \* parse_file's fixed_words of that line
    asked_for,        \* parse_file's asked_for of that line
    bad_count,        \* parse_file's bad_count
    changed,          \* parse_file's changed
    total_bad,        \* main's bad_count
    ret,              \* main's return value, -1 before it returns
    cur,              \* the locals of the last loop iteration over a match
    out,              \* what was printed and written, in order
    decisions         \* history: the decision of every iteration on a dictionary word

vars == <<options, config_error, dictionary, ignore_words, uri_ignore_words,
          exclude_file, files, disk, misspellings, exclude_lines, pc, fidx,
          lines, i, check_matches, fixed_words, asked_for, bad_count, changed,
          total_bad, ret, cur, out, decisions>>

inputs == <<options, config_error, dictionary, ignore_words, uri_ignore_words,
            exclude_file, files>>

EX_OK == 0

EX_USAGE == 64

EX_DATAERR == 65

\* QuietLevels
DISABLED_FIXES == 4

NON_AUTOMATIC_FIXES == 8

FIXES == 16

BINARY_FILE == 2

\* the context option when no context window is configured
None == <<>>

\* one printed line or one effect on the file system
Event(type, f, ln, word, fixword, reason) ==
    [type |-> type, file |-> f, line |-> ln, word |-> word,
     fixword |-> fixword, reason |-> reason]

NoLocals ==
    [word |-> <<>>, lword |-> <<>>, known |-> FALSE, asked |-> FALSE,
     fix |-> FALSE, fixword |-> <<>>, reason |-> <<>>, action |-> "none"]

\* a suppression with the two quiet bits exchanged; C8's property tells it
\* from QuietSuppresses
QuietSuppresses_Swapped(reason, quiet_level) ==
    IF reason # <<>> THEN HasBit(quiet_level, NON_AUTOMATIC_FIXES)
    ELSE HasBit(quiet_level, DISABLED_FIXES)

\* the reporting suppression of lines 840-848 and 944-952
QuietSuppresses(reason, quiet_level) ==
    IF reason # <<>> THEN HasBit(quiet_level, DISABLED_FIXES)
    ELSE HasBit(quiet_level, NON_AUTOMATIC_FIXES)

\* a filename check that finds nothing; C12's property tells it from
\* FilenameEvents
FilenameEvents_None(words, f, m, quiet_level) == <<>>

\* parse_file, lines 825-852: what the filename check prints for the words
\* of the filename
RECURSIVE FilenameEvents(_, _, _, _)
FilenameEvents(words, f, m, quiet_level) ==
    IF words = <<>> THEN <<>>
    ELSE LET word == Head(words)
             lword == lower(word)
             rest == FilenameEvents(Tail(words), f, m, quiet_level)
         IN  IF lword \notin DOMAIN m THEN rest
             ELSE IF QuietSuppresses(m[lword].reason, quiet_level) THEN rest
             ELSE <<Event("filename", f, 0, word,
                          fix_case(word, m[lword].data), m[lword].reason)>> \o rest

\* main, lines 1003-1135: the checks of the command line, the dictionary
\* load and the exclude file.  A dictionary line that does not unpack raises
\* out of main.
MainSetup ==
    /\ pc = "start"
    /\ IF config_error = "before_load"
       THEN /\ ret' = EX_USAGE
            /\ pc' = "exit"
            /\ UNCHANGED <<misspellings, exclude_lines>>
       ELSE IF \E k \in 1..Len(dictionary) : ~LineUnpacks(dictionary[k])
       THEN /\ pc' = "raised"
            /\ UNCHANGED <<ret, misspellings, exclude_lines>>
       ELSE /\ misspellings' = build_dict(dictionary, <<>>, ignore_words)
            /\ IF config_error = "after_load"
               THEN /\ ret' = EX_USAGE
                    /\ pc' = "exit"
                    /\ UNCHANGED exclude_lines
               ELSE /\ exclude_lines' = build_exclude_hashes(exclude_file)
                    /\ pc' = "files"
                    /\ UNCHANGED ret
    /\ UNCHANGED <<inputs, disk, fidx, lines, i, check_matches, fixed_words,
                   asked_for, bad_count, changed, total_bad, cur, out, decisions>>

\* whether parse_file returns before reading the lines (lines 854-873), and
\* the warning it prints
SkipWarning(file, quiet_level) ==
    IF file.kind = "permission" THEN <<"permission">>
    ELSE IF file.kind = "binary" /\ ~HasBit(quiet_level, BINARY_FILE) THEN <<"binary">>
    ELSE <<>>

IsStdin(file) == file.name = <<"-">>

\* main's loop, lines 1138-1191, calling parse_file, which runs up to the
\* loop over the lines (lines 816-873)
OpenFile ==
    /\ pc = "files"
    /\ fidx < Len(files)
    /\ LET f == fidx + 1
           file == files[f]
           found == IF ~IsStdin(file) /\ options.check_filenames
                    THEN FilenameEvents(extract_words(file.name), f, misspellings,
                                        options.quiet_level)
                    ELSE <<>>
           warned == SkipWarning(file, options.quiet_level)
       IN  /\ fidx' = f
           /\ cur' = NoLocals
           /\ IF IsStdin(file) \/ file.kind = "regular"
              THEN /\ out' = out \o found
                   /\ bad_count' = Len(found)
                   /\ lines' = disk[f]
                   /\ pc' = "parse"
                   /\ UNCHANGED total_bad
              ELSE /\ out' = out \o found \o
                             [k \in 1..Len(warned) |->
                                 Event(warned[k], f, 0, <<>>, <<>>, <<>>)]
                   /\ bad_count' = Len(found)
                   /\ total_bad' = total_bad + Len(found)
                   /\ lines' = <<>>
                   /\ pc' = "files"
           /\ i' = 0
           /\ changed' = FALSE
           /\ check_matches' = <<>>
           /\ fixed_words' = {}
           /\ asked_for' = {}
    /\ UNCHANGED <<inputs, disk, misspellings, exclude_lines, ret, decisions>>

\* parse_file, lines 875-897: the next line of the buffer; a line of the
\* exclude set is passed over, any other is split into the matches to check
ScanLine ==
    /\ pc = "parse"
    /\ check_matches = <<>>
    /\ i < Len(lines)
    /\ i' = i + 1
    /\ IF lines[i + 1] \in exclude_lines
       THEN UNCHANGED <<check_matches, fixed_words, asked_for>>
       ELSE /\ check_matches' = line_matches(lines[i + 1], uri_ignore_words)
            /\ fixed_words' = {}
            /\ asked_for' = {}
    /\ UNCHANGED <<inputs, disk, misspellings, exclude_lines, pc, fidx, lines,
                   bad_count, changed, total_bad, ret, cur, out, decisions>>

\* a context printed without regard to whether it was shown already; C18's
\* property tells it from ContextEvents
ContextEvents_Again(shown) ==
    IF options.context # None
    THEN <<[type |-> "context", file |-> fidx, line |-> i, word |-> <<>>,
            fixword |-> <<>>, reason |-> <<>>]>>
    ELSE <<>>

\* print_context, when a context window is configured
ContextEvents(shown) ==
    IF shown THEN <<Event("context", fidx, i, <<>>, <<>>, <<>>)>> ELSE <<>>

\* a prompt shown at every occurrence of the word; C16's property tells it
\* from PromptEvents
PromptEvents_Always(asking, misspelling, word) ==
    IF options.interactive # 0
    THEN <<[type |-> IF misspelling.fix /\ HasBit(options.interactive, 1)
                     THEN "confirm" ELSE "choose",
            file |-> fidx, line |-> i, word |-> word,
            fixword |-> <<>>, reason |-> <<>>]>>
    ELSE <<>>

\* the prompt ask_for_word_fix prints, if any
PromptEvents(asking, misspelling, word) ==
    IF asking /\ PromptKind(misspelling, options.interactive) # "none"
    THEN <<Event(PromptKind(misspelling, options.interactive), fidx, i, word,
                 <<>>, <<>>)>>
    ELSE <<>>

\* an iteration that reports what interactive mode left without a choice;
\* C2's property tells it from Outcome
Outcome_ReportOffered(word, fix, reason) ==
    IF word \in fixed_words THEN "skipped"
    ELSE IF options.write_changes /\ fix THEN "fixed"
    ELSE IF QuietSuppresses(reason, options.quiet_level) THEN "quiet"
    ELSE "reported"

\* an iteration that rewrites the line in write mode whatever the decision
\* is; C3's property tells it from Outcome
Outcome_FixUndecided(word, fix, reason) ==
    IF word \in fixed_words THEN "skipped"
    ELSE IF options.write_changes THEN "fixed"
    ELSE IF HasBit(options.interactive, 2) /\ ~fix /\ reason = <<>> THEN "offered"
    ELSE IF QuietSuppresses(reason, options.quiet_level) THEN "quiet"
    ELSE "reported"

\* which way one iteration of the loop over the matches leaves (lines
\* 922-956), for the word and the decision (fix, reason) reached
Outcome(word, fix, reason) ==
    IF word \in fixed_words THEN "skipped"
    ELSE IF options.write_changes /\ fix THEN "fixed"
    ELSE IF HasBit(options.interactive, 2) /\ ~fix /\ reason = <<>> THEN "offered"
    ELSE IF QuietSuppresses(reason, options.quiet_level) THEN "quiet"
    ELSE "reported"

\* parse_file, lines 898-969: one iteration of the loop over the matches
ProcessMatch ==
    /\ pc = "parse"
    /\ check_matches # <<>>
    /\ LET match == Head(check_matches)
           word == match.group
           lword == lower(word)
       IN  IF lword \notin DOMAIN misspellings
           THEN /\ cur' = [NoLocals EXCEPT !.word = word, !.lword = lword]
                /\ UNCHANGED <<misspellings, lines, fixed_words, asked_for,
                               bad_count, changed, out, decisions>>
           ELSE LET asking == options.interactive # 0 /\ lword \notin asked_for
                    before == misspellings[lword]
                IN  \E answer \in IF asking
                                  THEN Answers(before, options.interactive)
                                  ELSE {Reply("none", 0)} :
                      LET after == IF asking
                                   THEN ask_for_word_fix(before, options.interactive, answer)
                                   ELSE before
                          fix == after.fix
                          fixword == fix_case(word, after.data)
                          shown == asking /\ options.context # None
                          outcome == Outcome(word, fix, after.reason)
                      IN  /\ misspellings' = [misspellings EXCEPT ![lword] = after]
                          /\ asked_for' = IF asking THEN asked_for \cup {lword}
                                          ELSE asked_for
                          /\ cur' = [word |-> word, lword |-> lword, known |-> TRUE,
                                     asked |-> asking, fix |-> fix,
                                     fixword |-> fixword, reason |-> after.reason,
                                     action |-> outcome]
                          /\ decisions' = Append(decisions,
                                 [file |-> fidx, line |-> i, start |-> match.start,
                                  word |-> word, lword |-> lword, asked |-> asking,
                                  prompt |-> IF asking
                                             THEN PromptKind(before, options.interactive)
                                             ELSE "none",
                                  reply |-> answer.r, fix |-> fix,
                                  reason |-> after.reason, action |-> outcome])
                          /\ changed' = (changed \/ outcome = "fixed")
                          /\ lines' = IF outcome = "fixed"
                                      THEN [lines EXCEPT ![i] = word_sub(word, fixword, lines[i])]
                                      ELSE lines
                          /\ fixed_words' = IF outcome = "fixed"
                                            THEN fixed_words \cup {word}
                                            ELSE fixed_words
                          /\ bad_count' = IF outcome = "reported"
                                          THEN bad_count + 1 ELSE bad_count
                          /\ out' = out \o ContextEvents(shown)
                                        \o PromptEvents(asking, before, word)
                                        \o IF outcome = "reported"
                                           THEN ContextEvents(~shown /\ options.context # None)
                                                \o <<Event("finding", fidx, i, word,
                                                           fixword, after.reason)>>
                                           ELSE <<>>
    /\ check_matches' = Tail(check_matches)
    /\ UNCHANGED <<inputs, disk, exclude_lines, pc, fidx, i, total_bad, ret>>

\* parse_file, lines 971-984: the end of the file; the buffer is written back
\* (or echoed, for stdin) when a line changed; main adds the returned count
CloseFile ==
    /\ pc = "parse"
    /\ check_matches = <<>>
    /\ i = Len(lines)
    /\ IF changed /\ ~IsStdin(files[fidx])
       THEN /\ disk' = [disk EXCEPT ![fidx] = lines]
            /\ out' = out
                 \o (IF HasBit(options.quiet_level, FIXES) THEN <<>>
                     ELSE <<Event("FIXED", fidx, 0, <<>>, <<>>, <<>>)>>)
                 \o <<Event("write", fidx, 0, <<>>, <<>>, <<>>)>>
       ELSE /\ disk' = disk
            /\ out' = IF changed
                      THEN Append(out, Event("echo", fidx, 0, <<>>, <<>>, <<>>))
                      ELSE out
    /\ total_bad' = total_bad + bad_count
    /\ pc' = "files"
    /\ UNCHANGED <<inputs, misspellings, exclude_lines, fidx, lines, i,
                   check_matches, fixed_words, asked_for, bad_count, changed,
                   ret, cur, decisions>>

\* an exit that tolerates one finding; C11's property tells it from Finish
Finish_AboveOne ==
    /\ pc = "files"
    /\ fidx = Len(files)
    /\ ret' = IF total_bad > 1 THEN EX_DATAERR ELSE EX_OK
    /\ pc' = "exit"
    /\ UNCHANGED <<inputs, disk, misspellings, exclude_lines, fidx, lines, i,
                   check_matches, fixed_words, asked_for, bad_count, changed,
                   total_bad, cur, out, decisions>>

\* main, lines 1193-1198: the exit status
Finish ==
    /\ pc = "files"
    /\ fidx = Len(files)
    /\ ret' = IF total_bad # 0 THEN EX_DATAERR ELSE EX_OK
    /\ pc' = "exit"
    /\ UNCHANGED <<inputs, disk, misspellings, exclude_lines, fidx, lines, i,
                   check_matches, fixed_words, asked_for, bad_count, changed,
                   total_bad, cur, out, decisions>>

Next ==
    \/ MainSetup
    \/ OpenFile
    \/ ScanLine
    \/ ProcessMatch
    \/ CloseFile
    \/ Finish

(***************************************************************************)
(* The inputs of the runs that are explored.                               *)
(***************************************************************************)
\* the most words on a generated line
MaxWords == 2

\* the most lines in a generated file
MaxLines == 2

\* the most files in a run
MaxFiles == 2

NL == <<"\n">>

teh == <<"t","e","h">>

Teh == <<"T","e","h">>

TEH == <<"T","E","H">>

teh_apos == <<"t","e","h","'">>

tah == <<"t","a","h">>

the == <<"t","h","e">>

the_ten == <<"t","h","e",","," ","t","e","n">>

why == <<"w","h","y">>

git_teh == <<"g","i","t",":","/","/","x","/","t","e","h">>

teh_at_x == <<"t","e","h","@","x">>

x_at_teh == <<"x","@","t","e","h",".","x">>

\* dictionary lines: wrong->data
DictLine(wrong, data) == wrong \o ARROW \o data \o NL

Dictionaries ==
    { <<DictLine(teh, the)>>,
      <<DictLine(teh, the \o COMMA)>>,
      <<DictLine(teh, the_ten \o COMMA)>>,
      <<DictLine(teh, the \o <<",", " ">> \o why)>>,
      <<DictLine(teh_apos, the)>>,
      <<DictLine(teh, tah), DictLine(tah, the)>>,
      <<DictLine(Teh, the \o COMMA), DictLine(<<"t","E","h">>, <<"T","h","e">>)>>,
      <<DictLine(teh, the), DictLine(tah, the_ten \o <<",", " ">> \o why)>> }

\* the lines word (sep word)* of at most n words, ended by a newline
RECURSIVE Phrases(_, _, _)
Phrases(words, seps, n) ==
    IF n <= 1 THEN words
    ELSE LET shorter == Phrases(words, seps, n - 1)
         IN  shorter \cup {p \o sep \o w : p \in shorter, sep \in seps, w \in words}

TextLines(words, seps, n) == {p \o NL : p \in Phrases(words, seps, n)}

Separators == {<<" ">>, <<"-">>}

\* the sequences of 1..n elements of set
RECURSIVE SeqsUpTo(_, _)
SeqsUpTo(set, n) ==
    IF n <= 0 THEN {}
    ELSE LET shorter == SeqsUpTo(set, n - 1)
         IN  {<<x>> : x \in set} \cup {Append(q, x) : q \in shorter, x \in set}

File(name, kind, content) == [name |-> name, kind |-> kind, lines |-> content]

Options(write_changes, interactive, quiet_level, check_filenames, context) ==
    [write_changes |-> write_changes, interactive |-> interactive,
     quiet_level |-> quiet_level, check_filenames |-> check_filenames,
     context |-> context]

Scenario(opts, cfg, dict, ignore, uri_ignore, exclude, fs) ==
    [options |-> opts, config_error |-> cfg, dictionary |-> dict,
     ignore_words |-> ignore, uri_ignore_words |-> uri_ignore,
     exclude_file |-> exclude, files |-> fs]

\* the default quiet level of parse_options
DefaultQuiet == 34

\* one file of one line of words, every dictionary, with and without -w
FixScenarios ==
    { Scenario(Options(w, 0, DefaultQuiet, FALSE, None), "none", d, {}, {}, <<>>,
               <<File(<<"f">>, "regular", <<l>>)>>) :
        w \in BOOLEAN, d \in Dictionaries,
        l \in TextLines({teh, Teh, TEH, teh_apos, tah}, Separators, MaxWords) }

\* every interactivity and quiet level, with the filename check and a
\* context window
ReportScenarios ==
    { Scenario(Options(w, n, q, cf, c), "none", d, {}, {}, <<>>,
               <<File(teh, "regular", <<l>>)>>) :
        w \in BOOLEAN, n \in 0..3, q \in {0, 4, 8, 12, 16}, cf \in BOOLEAN,
        c \in {None, <<0, 0>>}, d \in Dictionaries,
        l \in {teh \o <<" ">> \o Teh \o NL, teh \o <<" ">> \o tah \o NL} }

\* lines with URIs and e-mail addresses, every kind of uri_ignore_words
UriScenarios ==
    { Scenario(Options(w, 0, DefaultQuiet, FALSE, None), "none", d, {}, u, <<>>,
               <<File(<<"f">>, "regular", <<l>>)>>) :
        w \in BOOLEAN,
        d \in {<<DictLine(teh, the)>>, <<DictLine(teh, the \o COMMA)>>},
        u \in {{}, {teh}, {STAR}, {STAR, teh}, {<<"x">>}},
        l \in TextLines({teh, git_teh, teh_at_x, x_at_teh}, Separators, MaxWords) }

\* 1..n copies of a file
Copies(file, n) == {[k \in 1..m |-> file] : m \in 1..n}

\* several files of several lines, an exclude file, interactive answers
FileScenarios ==
    { Scenario(Options(w, n, DefaultQuiet, FALSE, None), "none", d, {}, {}, x, fs) :
        w \in BOOLEAN, n \in {0, 1, 3},
        d \in {<<DictLine(teh, the)>>, <<DictLine(teh, the_ten \o COMMA)>>},
        x \in {<<>>, <<teh \o NL>>, <<Teh \o <<" ">> \o teh \o NL, teh>>},
        fs \in UNION { Copies(File(<<"f">>, "regular", c), MaxFiles) :
                         c \in SeqsUpTo({teh \o NL, Teh \o <<" ">> \o teh \o NL},
                                        MaxLines) } }

\* the most pieces in the data of a generated dictionary line
MaxData == 3

\* the data of a dictionary line, of 1..n pieces
RECURSIVE DataStrings(_, _)
DataStrings(pieces, n) ==
    IF n <= 1 THEN pieces
    ELSE LET shorter == DataStrings(pieces, n - 1)
         IN  shorter \cup {d \o p : d \in shorter, p \in pieces}

\* dictionary lines of every shape, read by build_dict
DictScenarios ==
    { Scenario(Options(FALSE, 0, DefaultQuiet, FALSE, None), "none",
               <<DictLine(k, d)>>, {}, {}, <<>>,
               <<File(<<"f">>, "regular", <<teh \o NL>>)>>) :
        k \in {teh, Teh},
        d \in DataStrings({the, <<"T","e","n">>, why, COMMA, <<" ">>}, MaxData) }

\* words of every case shape, with corrections of one and of two candidates
CaseScenarios ==
    { Scenario(Options(FALSE, 0, DefaultQuiet, FALSE, None), "none",
               <<DictLine(lower(wd), d)>>, {}, {}, <<>>,
               <<File(<<"f">>, "regular", <<wd \o NL>>)>>) :
        wd \in {teh, Teh, TEH, <<"t","E","h">>, <<"T","e","H">>, <<"t">>, <<"T">>,
                <<"'","t","e","h">>, <<"'","T","E","H">>, <<"-","T","e","h">>,
                teh_apos, <<"T","e","h","'","s">>, <<"1","s","t">>},
        d \in {the, the \o COMMA, the_ten \o COMMA, <<"t","h","e",",","t","e","n",",">>} }

\* files that parse_file passes over, stdin, usage errors, dictionary lines
\* that do not unpack, ignored words
OtherScenarios ==
    { Scenario(Options(w, 0, q, cf, None), cfg, d, ig, {}, <<>>,
               <<File(nm, k, <<teh \o NL>>)>>) :
        w \in BOOLEAN, q \in {0, BINARY_FILE}, cf \in BOOLEAN,
        cfg \in {"none", "before_load", "after_load"},
        d \in {<<DictLine(teh, the)>>, <<teh \o NL>>,
               <<DictLine(teh, tah \o ARROW \o the)>>},
        ig \in {{}, {teh}},
        nm \in {teh, <<"-">>},
        k \in {"regular", "irregular", "binary", "permission", "oserror"} }

Scenarios ==
    FixScenarios \cup ReportScenarios \cup UriScenarios \cup FileScenarios
        \cup DictScenarios \cup CaseScenarios \cup OtherScenarios

Init ==
    /\ \E sc \in Scenarios :
          /\ options = sc.options
          /\ config_error = sc.config_error
          /\ dictionary = sc.dictionary
          /\ ignore_words = sc.ignore_words
          /\ uri_ignore_words = sc.uri_ignore_words
          /\ exclude_file = sc.exclude_file
          /\ files = sc.files
          /\ disk = [f \in 1..Len(sc.files) |-> sc.files[f].lines]
    /\ misspellings = <<>>
    /\ exclude_lines = {}
    /\ pc = "start"
    /\ fidx = 0
    /\ lines = <<>>
    /\ i = 0
    /\ check_matches = <<>>
    /\ fixed_words = {}
    /\ asked_for = {}
    /\ bad_count = 0
    /\ changed = FALSE
    /\ total_bad = 0
    /\ ret = -1
    /\ cur = NoLocals
    /\ out = <<>>
    /\ decisions = <<>>

Spec == Init /\ [][Next]_vars

(***************************************************************************)
(* Properties.                                                             *)
(***************************************************************************)
\* the iteration of the loop over the matches that is about to run looks at
\* a word of the dictionary
OnKnownWord ==
    /\ pc = "parse"
    /\ check_matches # <<>>
    /\ lower(Head(check_matches).group) \in DOMAIN misspellings

\* what was printed or written for file f, of the given types
EventsOf(f, types) == SelectSeq(out, LAMBDA e : e.file = f /\ e.type \in types)

\* the iterations on dictionary words of line ln of file f
DecisionsOf(f, ln) == SelectSeq(decisions, LAMBDA d : d.file = f /\ d.line = ln)

\* a correction that is one token
OneToken(fixword) == extract_words(fixword) = <<fixword>>

\* C1 (as stated): in write mode with interactivity 0, the iteration on a
\* word whose entry has fix set leaves the line with every token equal to the
\* word replaced by the case-adjusted correction, and marks the file changed.
\* (Stated for corrections of one token, so that the tokens before and after
\* the step correspond one to one.)
C1_AllOccurrencesReplaced ==
    [][ LET word == Head(check_matches).group
            fixword == fix_case(word, misspellings[lower(word)].data)
            pre == extract_words(lines[i])
            post == extract_words(lines'[i])
        IN  ( /\ OnKnownWord
              /\ options.write_changes
              /\ options.interactive = 0
              /\ misspellings[lower(word)].fix
              /\ word \notin fixed_words
              /\ OneToken(fixword) )
            => /\ changed'
               /\ Len(post) = Len(pre)
               /\ \A k \in 1..Len(pre) : pre[k] = word => post[k] = fixword
      ]_vars

\* the suppression rules of a finding: the interactive choice left open, and
\* the two quiet bits
C2_Suppressed(fix, reason) ==
    \/ HasBit(options.interactive, 2) /\ ~fix /\ reason = <<>>
    \/ reason # <<>> /\ HasBit(options.quiet_level, DISABLED_FIXES)
    \/ reason = <<>> /\ HasBit(options.quiet_level, NON_AUTOMATIC_FIXES)

\* C2 (as stated): every iteration on a dictionary word that the suppression
\* rules do not silence increments the file's counter, whether or not write
\* mode applied a fix.
C2_CountedEvenIfFixed ==
    [][ (OnKnownWord /\ ~C2_Suppressed(cur'.fix, cur'.reason))
            => bad_count' = bad_count + 1 ]_vars

\* C2 (amended): an iteration on a dictionary word increments the file's
\* counter exactly when write mode does not fix the word and the suppression
\* rules do not silence it; a word that write mode fixes is not counted.  The
\* file's counter is added to the run's counter when the file is done.
C2_CountedUnlessFixed ==
    [][ /\ OnKnownWord =>
              bad_count' = IF options.write_changes /\ cur'.fix THEN bad_count
                           ELSE IF C2_Suppressed(cur'.fix, cur'.reason) THEN bad_count
                           ELSE bad_count + 1
        /\ (pc = "parse" /\ pc' = "files") => total_bad' = total_bad + bad_count
      ]_vars

\* C2: one word of the file was fixed and another one reported and counted
C2_Witness ==
    /\ options.write_changes
    /\ changed
    /\ pc = "files"
    /\ total_bad = 1
    /\ cur.known
    /\ ~cur.fix
    /\ ~C2_Suppressed(cur.fix, cur.reason)

\* no iteration on file f decided to fix, or write mode is off
C3_NoAffirmative(f) ==
    \/ ~options.write_changes
    \/ \A k \in DOMAIN decisions : decisions[k].file = f => ~decisions[k].fix

\* C3: a file for which no fix decision is affirmative is never opened for
\* writing, and its content on disk is what it was before the run.
C3_UntouchedWithoutFix ==
    \A f \in 1..fidx :
        C3_NoAffirmative(f) =>
            /\ disk[f] = files[f].lines
            /\ EventsOf(f, {"write", "FIXED", "echo"}) = <<>>
            /\ f = fidx => ~changed

\* C3: write mode, a file is done, the user declined a fix, no decision was
\* affirmative
C3_Witness ==
    /\ options.write_changes
    /\ pc = "files"
    /\ fidx >= 1
    /\ C3_NoAffirmative(fidx)
    /\ \E k \in DOMAIN decisions :
          decisions[k].file = fidx /\ decisions[k].reply = "N"

\* the original text of line ln of file f
Original(f, ln) == files[f].lines[ln]

\* line ln of file f is a member of the exclude set
Excluded(f, ln) == Original(f, ln) \in Range(exclude_file)

\* the scan has reached line ln of file f
Reached(f, ln) ==
    /\ IsStdin(files[f]) \/ files[f].kind = "regular"
    /\ ln \in 1..Len(files[f].lines)
    /\ f < fidx \/ (f = fidx /\ (pc # "parse" \/ ln <= i))

\* the matches among ms whose word is in the dictionary
Known(ms) == SelectSeq(ms, LAMBDA m : lower(m.group) \in DOMAIN misspellings)

\* the dictionary words of line ln of file f that the scan has looked at or
\* still holds to look at, in order, each with the start of its match
Looked(f, ln) ==
    LET ds == DecisionsOf(f, ln)
        ms == IF pc = "parse" /\ f = fidx /\ ln = i THEN Known(check_matches)
              ELSE <<>>
    IN  [k \in 1..Len(ds) |-> [start |-> ds[k].start, word |-> ds[k].word]]
          \o [k \in 1..Len(ms) |-> [start |-> ms[k].start, word |-> ms[k].group]]

\* the findings printed for file f
Findings(f) == EventsOf(f, {"finding", "filename"})

\* the counters hold the number of findings printed: bad_count for the file
\* being scanned, total_bad for the files that are done
CountersMatchFindings ==
    /\ pc = "parse" => bad_count = Len(Findings(fidx))
    /\ total_bad = Len(SelectSeq(out, LAMBDA e :
                         /\ e.type \in {"finding", "filename"}
                         /\ e.file < fidx \/ pc # "parse"))

\* C4: an entry with a non-empty reason never has fix set, after the load
\* and after any answers; no iteration on such an entry decides to fix, and
\* a line on which every iteration met such an entry is not rewritten.
C4_ReasonNeverFixed ==
    /\ \A k \in DOMAIN misspellings :
          misspellings[k].reason # <<>> => ~misspellings[k].fix
    /\ \A n \in DOMAIN decisions :
          decisions[n].reason # <<>> => ~decisions[n].fix
    /\ pc = "parse" =>
          \A ln \in 1..Len(lines) :
              (\A n \in DOMAIN DecisionsOf(fidx, ln) :
                   DecisionsOf(fidx, ln)[n].reason # <<>>)
                  => lines[ln] = Original(fidx, ln)

\* C4: write mode, interactivity 3, the word of an entry with a reason was
\* looked at and the file is unchanged
C4_Witness ==
    /\ options.write_changes
    /\ options.interactive = 3
    /\ cur.known
    /\ cur.asked
    /\ cur.reason # <<>>
    /\ pc = "files"
    /\ disk[fidx] = files[fidx].lines

\* C5: nothing is printed, asked or counted for a line of the exclude set,
\* and the line is not rewritten; every other line is scanned for each of
\* its dictionary words.
C5_ExcludedLinesSkipped ==
    /\ \A k \in DOMAIN out : out[k].line >= 1 => ~Excluded(out[k].file, out[k].line)
    /\ \A k \in DOMAIN decisions : ~Excluded(decisions[k].file, decisions[k].line)
    /\ CountersMatchFindings
    /\ pc = "parse" =>
          \A ln \in 1..Len(lines) :
              Excluded(fidx, ln) => lines[ln] = Original(fidx, ln)
    /\ \A f \in 1..fidx : \A ln \in 1..Len(files[f].lines) :
          (Reached(f, ln) /\ ~Excluded(f, ln)) =>
              LET ms == Known(line_matches(Original(f, ln), uri_ignore_words))
              IN  Looked(f, ln) =
                      [k \in 1..Len(ms) |-> [start |-> ms[k].start, word |-> ms[k].group]]

\* C5: a file is done whose excluded line holds a dictionary word and is as
\* it was, and another line of which was fixed
C5_Witness ==
    /\ pc = "files"
    /\ fidx >= 1
    /\ \E ln \in 1..Len(files[fidx].lines) :
          /\ Excluded(fidx, ln)
          /\ Known(extract_words_iter(Original(fidx, ln))) # <<>>
          /\ disk[fidx][ln] = Original(fidx, ln)
    /\ disk[fidx] # files[fidx].lines

\* the match m of the line lies inside a URI or email span of the line
InUri(m, line) ==
    \E k \in DOMAIN UriSpans(line, 1) :
        /\ UriSpans(line, 1)[k].start <= m.start + 1
        /\ m.end + 1 <= UriSpans(line, 1)[k].end

\* the indices of the matches of word w on the line
Occurrences(w, line) ==
    {k \in DOMAIN extract_words_iter(line) : extract_words_iter(line)[k].group = w}

\* w is matched twice on the line, once inside a URI or email span and once
\* outside, and is extracted once from the URI texts
OnceInOnceOut(w, line) ==
    LET ms == extract_words_iter(line)
        uris == uri_findall(line)
        uri_words == Flatten([k \in 1..Len(uris) |-> extract_words(uris[k])])
    IN  /\ Cardinality(Occurrences(w, line)) = 2
        /\ Cardinality({k \in Occurrences(w, line) : InUri(ms[k], line)}) = 1
        /\ Cardinality({k \in DOMAIN uri_words : uri_words[k] = w}) = 1

\* the lines and words C6 is about: no wildcard, a dictionary word of
\* uri_ignore_words once inside and once outside a span of a scanned line
C6_Case(f, ln, w) ==
    /\ STAR \notin uri_ignore_words
    /\ w \in uri_ignore_words
    /\ lower(w) \in DOMAIN misspellings
    /\ Reached(f, ln)
    /\ ~Excluded(f, ln)
    /\ OnceInOnceOut(w, Original(f, ln))

\* the matches of w of line ln of file f that are looked at
C6_LookedFor(f, ln, w) == SelectSeq(Looked(f, ln), LAMBDA x : x.word = w)

\* C6 (as stated): the match that is suppressed is the one inside the span,
\* the one looked at is the standalone one, for either order.
C6_InsideOneSuppressed ==
    \A f \in 1..fidx : \A ln \in 1..Len(files[f].lines) : \A w \in uri_ignore_words :
        C6_Case(f, ln, w) =>
            LET ms == extract_words_iter(Original(f, ln))
                outside == CHOOSE k \in Occurrences(w, Original(f, ln)) :
                               ~InUri(ms[k], Original(f, ln))
            IN  C6_LookedFor(f, ln, w) = <<[start |-> ms[outside].start, word |-> w]>>

\* C6 (amended): exactly one match is suppressed and it is the first one on
\* the line, be it inside the span or not; the second one is looked at, and
\* outside write mode it is reported once the line is done.
C6_FirstOneSuppressed ==
    \A f \in 1..fidx : \A ln \in 1..Len(files[f].lines) : \A w \in uri_ignore_words :
        C6_Case(f, ln, w) =>
            LET ms == extract_words_iter(Original(f, ln))
                second == CHOOSE k \in Occurrences(w, Original(f, ln)) :
                              \A j \in Occurrences(w, Original(f, ln)) : j <= k
                entry == misspellings[lower(w)]
            IN  /\ C6_LookedFor(f, ln, w) = <<[start |-> ms[second].start, word |-> w]>>
                /\ ( /\ ~options.write_changes
                     /\ ~C2_Suppressed(entry.fix, entry.reason)
                     /\ DecisionsOf(f, ln) # <<>> )
                   => Len(SelectSeq(out, LAMBDA e :
                              /\ e.type = "finding" /\ e.file = f
                              /\ e.line = ln /\ e.word = w)) = 1

\* C6: the standalone occurrence comes first, the occurrence inside the span
\* was looked at and reported
C6_Witness ==
    /\ pc = "files"
    /\ fidx = 1
    /\ C6_Case(1, 1, teh)
    /\ InUri(extract_words_iter(Original(1, 1))[
                 CHOOSE k \in Occurrences(teh, Original(1, 1)) :
                     \A j \in Occurrences(teh, Original(1, 1)) : j <= k],
             Original(1, 1))
    /\ Len(Findings(1)) = 1

\* the pieces of the line outside its URI and email spans
OutsideSegments(line) ==
    LET sp == UriSpans(line, 1)
        n == Len(sp)
    IN  [k \in 1..(n + 1) |->
            SubSeq(line, IF k = 1 THEN 1 ELSE sp[k - 1].end,
                         IF k = n + 1 THEN Len(line) ELSE sp[k].start - 1)]

\* the words of the line outside its URI and email spans
OutsideWords(line) ==
    LET segs == OutsideSegments(line)
    IN  Flatten([k \in 1..Len(segs) |-> extract_words(segs[k])])

\* C7: with the wildcard in uri_ignore_words, the dictionary words looked at
\* on a scanned line are those outside its URI and email spans, each of
\* them and no other, and nothing is asked or printed about another word.
C7_WildcardHidesUris ==
    STAR \in uri_ignore_words =>
        /\ \A f \in 1..fidx : \A ln \in 1..Len(files[f].lines) :
              (Reached(f, ln) /\ ~Excluded(f, ln)) =>
                  LET ws == OutsideWords(Original(f, ln))
                      lk == Looked(f, ln)
                  IN  [k \in 1..Len(lk) |-> lk[k].word] =
                          SelectSeq(ws, LAMBDA w : lower(w) \in DOMAIN misspellings)
        /\ \A k \in DOMAIN out :
              out[k].line >= 1 /\ out[k].type \in {"finding", "confirm", "choose"}
                  => out[k].word \in Range(OutsideWords(Original(out[k].file, out[k].line)))

\* C7: the line holds the word inside a span and outside, the file is done
\* and the word was looked at once
C7_Witness ==
    /\ STAR \in uri_ignore_words
    /\ pc = "files"
    /\ fidx = 1
    /\ \E k \in Occurrences(teh, Original(1, 1)) :
          InUri(extract_words_iter(Original(1, 1))[k], Original(1, 1))
    /\ teh \in Range(OutsideWords(Original(1, 1)))
    /\ Len(decisions) = 1
    /\ Len(Findings(1)) = 1

\* C8: with the quiet bit NON_AUTOMATIC_FIXES set, no finding of a line or of
\* a filename is printed for an entry with an empty reason (whether its fix
\* is set or not, so in particular when it is not), and the counters count
\* the printed findings only.
C8_QuietNonAutomatic ==
    HasBit(options.quiet_level, NON_AUTOMATIC_FIXES) =>
        /\ \A k \in DOMAIN out :
              out[k].type \in {"finding", "filename"} => out[k].reason # <<>>
        /\ CountersMatchFindings

\* C8: the bit is set, the filename and a line hold the word of an entry
\* with an empty reason and no fix, and nothing was counted
C8_Witness ==
    /\ HasBit(options.quiet_level, NON_AUTOMATIC_FIXES)
    /\ options.check_filenames
    /\ options.interactive = 0
    /\ pc = "files"
    /\ fidx = 1
    /\ lower(files[1].name) \in DOMAIN misspellings
    /\ cur.known
    /\ ~cur.fix
    /\ cur.reason = <<>>
    /\ total_bad = 0
    /\ out = <<>>

\* the entry the classification by the last comma gives for the trimmed,
\* lower-cased data
C9_Classified(data) ==
    LET commas == {p \in 1..Len(data) : data[p] = ","}
        last == CHOOSE p \in commas : \A x \in commas : x <= p
    IN  IF commas = {} THEN [data |-> data, fix |-> TRUE, reason |-> <<>>]
        ELSE IF last = Len(data)
             THEN [data |-> SubSeq(data, 1, last - 1), fix |-> FALSE, reason |-> <<>>]
             ELSE [data |-> SubSeq(data, 1, last - 1), fix |-> FALSE,
                   reason |-> strip(SubSeq(data, last + 1, Len(data)))]

\* C9: after the load, the entry of a key is classified by the last comma of
\* the data of the key's last dictionary line, and its fix is set exactly
\* when that data holds no comma.
C9_ClassifiedByLastComma ==
    (pc = "files" /\ fidx = 0) =>
        \A n \in 1..Len(dictionary) :
            LET parts == split(dictionary[n], ARROW)
                key == lower(parts[1])
                data == strip(lower(parts[2]))
            IN  ( /\ key \notin ignore_words
                  /\ \A later \in (n + 1)..Len(dictionary) :
                        lower(split(dictionary[later], ARROW)[1]) # key )
                => /\ key \in DOMAIN misspellings
                   /\ misspellings[key] = C9_Classified(data)
                   /\ misspellings[key].fix <=> "," \notin Range(data)

\* C9: an entry was loaded whose data keeps a comma before the last one and
\* whose reason is not empty
C9_Witness ==
    /\ pc = "files"
    /\ fidx = 0
    /\ \E key \in DOMAIN misspellings :
          /\ misspellings[key].reason # <<>>
          /\ "," \in Range(misspellings[key].data)
          /\ ~misspellings[key].fix

\* first letter upper case, no upper case letter after it
C10_Capitalized(word) ==
    /\ word # <<>>
    /\ IsUpperCh(word[1])
    /\ \A k \in 2..Len(word) : ~IsUpperCh(word[k])

\* some letter, and no lower case letter
C10_AllUpper(word) ==
    /\ \E k \in 1..Len(word) : IsUpperCh(word[k])
    /\ \A k \in 1..Len(word) : ~IsLowerCh(word[k])

\* what C10 states fix_case returns
C10_Stated(word, correction) ==
    IF C10_Capitalized(word)
    THEN LET ws == split(correction, COMMA)
         IN  join(<<",", " ">>, [k \in 1..Len(ws) |-> capitalize(strip(ws[k]))])
    ELSE IF C10_AllUpper(word) THEN upper(correction)
    ELSE correction

\* C10 (as stated): the correction shown for a word is capitalized per
\* candidate for a capitalized word, upper-cased for an upper-case word and
\* unchanged for any other word, every all-lower-case word among them.
C10_FixCaseAsStated ==
    cur.known => cur.fixword = C10_Stated(cur.word, misspellings[cur.lword].data)

\* every finding printed in the run
AllFindings == SelectSeq(out, LAMBDA e : e.type \in {"finding", "filename"})

\* C11: main returns EX_OK exactly when the bad-word counts of the run add
\* up to zero and EX_DATAERR when they add up to more; it returns EX_USAGE for
\* a usage error, and then no file was opened, scanned or rewritten.
C11_ExitStatus ==
    /\ ret # -1 <=> pc = "exit"
    /\ pc = "exit" =>
          IF config_error # "none"
          THEN /\ ret = EX_USAGE
               /\ fidx = 0
               /\ out = <<>>
               /\ decisions = <<>>
               /\ disk = [f \in 1..Len(files) |-> files[f].lines]
          ELSE /\ fidx = Len(files)
               /\ ret \in {EX_OK, EX_DATAERR}
               /\ ret = EX_OK <=> total_bad = 0
               /\ total_bad = Len(AllFindings)

\* C11: a run of two files, each with a finding, returned EX_DATAERR
C11_Witness ==
    /\ pc = "exit"
    /\ ret = EX_DATAERR
    /\ Len(files) = 2
    /\ Findings(1) # <<>>
    /\ Findings(2) # <<>>

\* parse_file returns for file f before reading its lines
Skipped(f) == ~IsStdin(files[f]) /\ files[f].kind # "regular"

\* the words of the name of file f that the filename check reports
C12_ReportedNameWords(f) ==
    LET ws == extract_words(files[f].name)
    IN  {k \in 1..Len(ws) :
            /\ options.check_filenames
            /\ lower(ws[k]) \in DOMAIN misspellings
            /\ LET reason == misspellings[lower(ws[k])].reason
               IN  IF reason # <<>>
                   THEN ~HasBit(options.quiet_level, DISABLED_FIXES)
                   ELSE ~HasBit(options.quiet_level, NON_AUTOMATIC_FIXES)}

\* C12 (as stated): parse_file returns zero for a skipped file, whatever the
\* options are.
C12_SkippedReturnsZero ==
    (pc = "files" /\ fidx >= 1 /\ Skipped(fidx)) => bad_count = 0

\* C12 (amended): for a skipped file parse_file returns the number of
\* findings of the filename check (zero when the check is off) and nothing
\* else: no line is scanned, nothing is asked, the file is not rewritten; a
\* permission error is warned about.
C12_SkippedReturnsNameFindings ==
    \A f \in 1..fidx :
        Skipped(f) =>
            /\ f = fidx => bad_count = Cardinality(C12_ReportedNameWords(f))
            /\ Len(Findings(f)) = Cardinality(C12_ReportedNameWords(f))
            /\ EventsOf(f, {"finding", "context", "confirm", "choose",
                            "FIXED", "write", "echo"}) = <<>>
            /\ \A k \in DOMAIN decisions : decisions[k].file # f
            /\ disk[f] = files[f].lines
            /\ Len(EventsOf(f, {"permission"})) =
                   IF files[f].kind = "permission" THEN 1 ELSE 0

\* C12: a binary file whose name holds a dictionary word was skipped and one
\* finding was counted for it
C12_Witness ==
    /\ pc = "files"
    /\ fidx = 1
    /\ files[1].kind = "binary"
    /\ options.check_filenames
    /\ total_bad = 1

\* the number of "->" in a dictionary line
ArrowCount(dline) == Cardinality({p \in 1..Len(dline) : StartsAt(dline, p, ARROW)})

\* the text before and the text after the first "->" of a dictionary line
BeforeArrow(dline) ==
    SubSeq(dline, 1, (CHOOSE p \in 1..Len(dline) :
                          /\ StartsAt(dline, p, ARROW)
                          /\ \A x \in 1..(p - 1) : ~StartsAt(dline, x, ARROW)) - 1)

AfterArrow(dline) == SubSeq(dline, Len(BeforeArrow(dline)) + 3, Len(dline))

\* the dictionary load was reached
LoadReached == pc # "start" /\ config_error # "before_load"

\* C13 (as stated): the load fails exactly when some line holds no "->";
\* otherwise every line is split at its first "->".
C13_FailsIffNoArrow ==
    LoadReached =>
        /\ pc = "raised" <=> \E n \in 1..Len(dictionary) : ArrowCount(dictionary[n]) = 0
        /\ (pc = "files" /\ fidx = 0) =>
              \A n \in 1..Len(dictionary) :
                  LET key == lower(BeforeArrow(dictionary[n]))
                  IN  ( /\ key \notin ignore_words
                        /\ \A later \in (n + 1)..Len(dictionary) :
                              lower(BeforeArrow(dictionary[later])) # key )
                      => /\ key \in DOMAIN misspellings
                         /\ misspellings[key] = ParseData(lower(AfterArrow(dictionary[n])))

\* C13 (amended): the load fails exactly when some line does not hold exactly
\* one "->"; a line with exactly one gives key = the text before it and
\* data = the text after it.
C13_FailsUnlessOneArrow ==
    LoadReached =>
        /\ pc = "raised" <=> \E n \in 1..Len(dictionary) : ArrowCount(dictionary[n]) # 1
        /\ pc = "raised" => misspellings = <<>> /\ fidx = 0 /\ out = <<>>
        /\ (pc = "files" /\ fidx = 0) =>
              \A n \in 1..Len(dictionary) :
                  LET key == lower(BeforeArrow(dictionary[n]))
                  IN  ( /\ key \notin ignore_words
                        /\ \A later \in (n + 1)..Len(dictionary) :
                              lower(BeforeArrow(dictionary[later])) # key )
                      => /\ key \in DOMAIN misspellings
                         /\ misspellings[key] = ParseData(lower(AfterArrow(dictionary[n])))

\* C13: the load failed on a line that holds "->" twice
C13_Witness ==
    /\ pc = "raised"
    /\ \E n \in 1..Len(dictionary) : ArrowCount(dictionary[n]) = 2

\* C14 (as stated): once a confirm prompt for a word was answered "no", the
\* fix of the entry of the word is off in every later state of the run.
C14_DeclinedStaysDeclined ==
    \A n \in DOMAIN decisions :
        decisions[n].reply = "N" => ~misspellings[decisions[n].lword].fix

\* the step prints a choose prompt
ChoosePrompted ==
    \E k \in (Len(out) + 1)..Len(out') : out'[k].type = "choose"

\* C15 (as stated): a choose prompt is printed only for an entry whose reason
\* is empty and whose data holds more than one comma-separated candidate.
C15_ChooseOnlyAmongSeveral ==
    [][ (OnKnownWord /\ ChoosePrompted) =>
            LET entry == misspellings[lower(Head(check_matches).group)]
            IN  /\ entry.reason = <<>>
                /\ Len(Candidates(entry.data)) > 1 ]_vars

\* the prompts printed on line ln of file f for the lower-case word lword
PromptsFor(f, ln, lword) ==
    SelectSeq(out, LAMBDA e : /\ e.type \in {"confirm", "choose"}
                              /\ e.file = f /\ e.line = ln
                              /\ lower(e.word) = lword)

\* C16: on one line the resolver is asked for the first occurrence of a
\* lower-case word and for no later one; a later occurrence shows no prompt,
\* reads no answer and takes the fix and the reason the entry then has, those
\* the first occurrence left.
C16_AskedOncePerWordPerLine ==
    \A f \in 1..fidx : \A ln \in 1..Len(files[f].lines) :
        LET ds == DecisionsOf(f, ln)
        IN  \A a \in DOMAIN ds :
                /\ ds[a].asked <=>
                       /\ options.interactive # 0
                       /\ \A b \in 1..(a - 1) : ds[b].lword # ds[a].lword
                /\ ~ds[a].asked => ds[a].prompt = "none" /\ ds[a].reply = "none"
                /\ \A b \in 1..(a - 1) :
                       ds[b].lword = ds[a].lword =>
                           ds[a].fix = ds[b].fix /\ ds[a].reason = ds[b].reason
                /\ Len(PromptsFor(f, ln, ds[a].lword)) <= 1

\* C16: two occurrences of one lower-case word on a line; the first was
\* asked about and declined, the second was not asked about and is not fixed
C16_Witness ==
    \E f \in 1..fidx : \E ln \in 1..Len(files[f].lines) :
        LET ds == DecisionsOf(f, ln)
        IN  /\ Len(ds) = 2
            /\ ds[1].lword = ds[2].lword
            /\ ds[1].word # ds[2].word
            /\ ds[1].reply = "N"
            /\ ~ds[2].asked
            /\ ~ds[2].fix
            /\ Len(PromptsFor(f, ln, ds[1].lword)) = 1

\* C17 (as stated): in write mode a fix never substitutes text that an
\* earlier fix inserted on the line: when the line is rewritten for a word,
\* the buffer holds no more tokens equal to the word than the original line.
C17_NoDoubleSubstitution ==
    [][ (OnKnownWord /\ lines' # lines) =>
            LET word == Head(check_matches).group
            IN  Cardinality(Occurrences(word, lines[i]))
                    <= Cardinality(Occurrences(word, Original(fidx, i))) ]_vars

\* the contexts printed for line ln of file f
ContextsOf(f, ln) == SelectSeq(out, LAMBDA e : e.type = "context" /\ e.file = f /\ e.line = ln)

\* C18 (as stated): the context of a line is printed at most once.
C18_ContextOncePerLine ==
    \A f \in 1..fidx : \A ln \in 1..Len(files[f].lines) : Len(ContextsOf(f, ln)) <= 1

\* C18 (amended): with a context window configured, the context is printed
\* once for every occurrence that the resolver is asked about or that is
\* reported - not twice for an occurrence that is both - so again for every
\* later finding of the line, and every reported finding of a line comes
\* right after the context or after the prompt the context was printed for;
\* without a context window nothing is printed.
C18_ContextOncePerFinding ==
    /\ \A f \in 1..fidx : \A ln \in 1..Len(files[f].lines) :
          LET ds == DecisionsOf(f, ln)
          IN  Len(ContextsOf(f, ln)) =
                  IF options.context = None THEN 0
                  ELSE Cardinality({a \in DOMAIN ds :
                                       ds[a].asked \/ ds[a].action = "reported"})
    /\ \A k \in DOMAIN out :
          (out[k].type = "finding" /\ options.context # None) =>
              /\ k > 1
              /\ out[k - 1].type \in {"context", "confirm", "choose"}
              /\ out[k - 1].file = out[k].file
              /\ out[k - 1].line = out[k].line

\* C18: no prompts, two findings on one line, the context printed twice
C18_Witness ==
    /\ options.interactive = 0
    /\ ~options.check_filenames
    /\ Len(ContextsOf(1, 1)) = 2
    /\ Len(Findings(1)) = 2

\* the first match of w on the line lies inside a URI or email span
FirstInUri(w, line) ==
    LET first == CHOOSE k \in Occurrences(w, line) :
                     \A j \in Occurrences(w, line) : k <= j
    IN  InUri(extract_words_iter(line)[first], line)

\* line ln of file f has a word occurrence inside a span that is exempt from
\* the scan: all of them with the wildcard, the first match of a member of
\* uri_ignore_words otherwise
C19_Exempted(f, ln) ==
    \/ STAR \in uri_ignore_words /\ uri_findall(Original(f, ln)) # <<>>
    \/ \E w \in uri_ignore_words :
          C6_Case(f, ln, w) /\ FirstInUri(w, Original(f, ln))

\* C19 (as stated): in write mode the URI and email texts of a line with
\* exempted occurrences are the same in the buffer and on disk as in the
\* original line.
C19_ExemptSpansKept ==
    options.write_changes =>
        \A f \in 1..Len(files) : \A ln \in 1..Len(files[f].lines) :
            C19_Exempted(f, ln) =>
                /\ uri_findall(disk[f][ln]) = uri_findall(Original(f, ln))
                /\ (pc = "parse" /\ f = fidx) =>
                       uri_findall(lines[ln]) = uri_findall(Original(f, ln))

\* the text s from position p on with every token equal to word replaced by
\* fixword, and nothing else changed
RECURSIVE ReplaceTokens(_, _, _, _)
ReplaceTokens(s, p, word, fixword) ==
    IF p > Len(s) THEN <<>>
    ELSE IF s[p] \in word_regex_def
         THEN LET e == RunEnd(s, p, word_regex_def)
                  token == SubSeq(s, p, e - 1)
              IN  (IF token = word THEN fixword ELSE token)
                      \o ReplaceTokens(s, e, word, fixword)
         ELSE <<s[p]>> \o ReplaceTokens(s, p + 1, word, fixword)

\* C20 (as stated): in write mode, the iteration that decides to fix a word
\* not fixed before on the line rewrites exactly the tokens of the line that
\* equal the word: each of them is replaced and no other token is altered.
C20_ExactlyTheEqualTokens ==
    [][ ( /\ OnKnownWord
          /\ options.write_changes
          /\ cur'.fix
          /\ Head(check_matches).group \notin fixed_words )
        => lines'[i] = ReplaceTokens(lines[i], 1, Head(check_matches).group,
                                     cur'.fixword) ]_vars

====
